---------------------------- MODULE Spec2Model ----------------------------
(***************************************************************************)
(* Model of the process counter of dragonFLY (src/main.py, class           *)
(* ProcessData): the batch ledger, the operation (undo) stack, the three   *)
(* thresholds, the derived flags and the liquid-change reminder flag of    *)
(* one (device, process-type) pair, together with its persisted record.    *)
(*                                                                         *)
(* Numbers.  The callers round every value to two decimals, so a number is *)
(* modelled as an integer count of hundredths: 150 is 1.50, 300000 is the  *)
(* default target 3000.0.  A value is fractional iff it is not a multiple  *)
(* of Scale.                                                               *)
(*                                                                         *)
(* Each method of ProcessData is an operator from an engine record to an   *)
(* engine record (plus an operator for its return value); each action of   *)
(* Spec is one call of one public method.  The handlers of DeviceTab are   *)
(* operators composed of those; each action of AppSpec is one handler of   *)
(* the running application, or a start of the application on the file the  *)
(* last run left behind.  LoadSpec starts the application on the records   *)
(* an earlier installation may have written.  FaultSpec is the engine on a *)
(* disk that fails and a process that is killed.  DirSpec is the data      *)
(* directory shared by the engines of all devices (class MainApplication   *)
(* and DeviceTab's loading), and LogSpec the operation log of              *)
(* MainApplication.                                                        *)
(***************************************************************************)
EXTENDS Integers, Sequences, FiniteSets, TLC

\* ------------------------------------------------------------------ bounds
MaxBatches == 2
MaxOps == 2
MaxRestarts == 1
MaxLogged == 1100        \* log entries written in LogSpec

\* ------------------------------------------------------- program constants
Scale == 100
DEFAULT_TARGET == 300000
DEFAULT_LOWER_LIMIT == 0
DEFAULT_UPPER_LIMIT == 500000
\* add_log_entry and save_history_logs
LogLimit == 1000         \* the active log is rotated when it is longer than this
LogArchived == 100       \* entries handed to save_history_logs at a rotation
LogKept == 900           \* entries the active log keeps at a rotation
HistoryLimit == 5000     \* entries the history file keeps

\* ------------------------------------------------------------ input spaces
\* add_batch(batch_id, value): a zero value (accepted in decimal mode), a
\* fractional value and a whole value; batch id A is used twice.
Contributions == {[batch_id |-> "A", value |-> 0],
                  [batch_id |-> "A", value |-> 50],
                  [batch_id |-> "B", value |-> 100]}
\* new values for the threshold setters
ThresholdInputs == {0, 100}

VARIABLES
    batches,                \* self.batches: sequence of [batch_id, value]
    operation_stack,        \* self.operation_stack: sequence of operation records
    over_target_upper,      \* self.over_target_upper
    below_target_lower,     \* self.below_target_lower
    TARGET,                 \* self.TARGET
    LOWER_LIMIT,            \* self.LOWER_LIMIT
    UPPER_LIMIT,            \* self.UPPER_LIMIT
    has_decimal,            \* self.has_decimal
    liquid_change_reminded, \* self.liquid_change_reminded
    input_mode,             \* self.input_mode
    data_file,              \* contents of self.DATA_FILE, or NoFile
    last_op,                \* name of the method called last
    result,                 \* what that call returned
    shadow,                 \* history: the state seen at each push onto operation_stack
    undone,                 \* history: the record popped by the last undo and the state seen at its push
    run,                    \* history: current run of one mutation repeated n times, then k undos
    restarts,               \* history: how many times the application was started again
    files,                  \* the data directory: file name |-> record and the pair that wrote it
    device_tabs,            \* MainApplication.device_tabs: device id |-> process type |-> engine
    log_entries,            \* MainApplication.log_entries
    history_logs            \* contents of HISTORY_LOG_FILE

engine_vars == <<batches, operation_stack, over_target_upper, below_target_lower,
                 TARGET, LOWER_LIMIT, UPPER_LIMIT, has_decimal,
                 liquid_change_reminded, input_mode, data_file>>
vars == <<batches, operation_stack, over_target_upper, below_target_lower,
          TARGET, LOWER_LIMIT, UPPER_LIMIT, has_decimal,
          liquid_change_reminded, input_mode, data_file,
          last_op, result, shadow, undone, run, restarts,
          files, device_tabs, log_entries, history_logs>>
app_vars == <<files, device_tabs, log_entries, history_logs>>

NoFile == [exists |-> FALSE]

\* A file cut short in the middle of a write: it exists and json.load raises on it.
CorruptFile == [exists |-> TRUE, corrupt |-> TRUE]

\* ----------------------------------------------------------------- helpers
RECURSIVE SumValues(_)
SumValues(bs) == IF bs = <<>> THEN 0 ELSE SumValues(SubSeq(bs, 1, Len(bs) - 1)) + bs[Len(bs)].value

Front(s) == SubSeq(s, 1, Len(s) - 1)
Last(s) == s[Len(s)]

\* value != int(value)
IsFractional(v) == v % Scale # 0
AnyFractional(bs) == \E i \in 1..Len(bs) : IsFractional(bs[i].value)

\* The engine as one record (the fields of self, and the file it owns).
Self == [batches |-> batches, operation_stack |-> operation_stack,
         over_target_upper |-> over_target_upper, below_target_lower |-> below_target_lower,
         TARGET |-> TARGET, LOWER_LIMIT |-> LOWER_LIMIT, UPPER_LIMIT |-> UPPER_LIMIT,
         has_decimal |-> has_decimal, liquid_change_reminded |-> liquid_change_reminded,
         input_mode |-> input_mode, data_file |-> data_file]

\* Return values: a kind, a message tag and a number (0 where there is none).
Ret(kind, msg, val) == [kind |-> kind, msg |-> msg, val |-> val]
RetNone == Ret("None", "", 0)
RetNumber(v) == Ret("number", "", v)
RetFalse == Ret("False", "", 0)

\* ------------------------------------------------------------ ProcessData
\* @property total
total(s) == SumValues(s.batches)

\* variant: the upper limit itself already counts as exceeded
check_target_limits_inclusive(s) ==
    [s EXCEPT !.over_target_upper = total(s) >= s.UPPER_LIMIT,
              !.below_target_lower = total(s) >= s.LOWER_LIMIT /\ total(s) < s.TARGET]

check_target_limits(s) ==
    [s EXCEPT !.over_target_upper = total(s) > s.UPPER_LIMIT,
              !.below_target_lower = total(s) >= s.LOWER_LIMIT /\ total(s) < s.TARGET]

check_decimal_status(s) == [s EXCEPT !.has_decimal = AnyFractional(s.batches)]

update_total_from_batches(s) == [s EXCEPT !.has_decimal = AnyFractional(s.batches)]

\* json.dump of a number: its decimal text, whole part and hundredths
JsonNumber(n) == [whole |-> n \div Scale, cents |-> n % Scale]

\* json.load / float() of a number text
ParseNumber(j) == j.whole * Scale + j.cents

JsonBatches(bs) ==
    [i \in 1..Len(bs) |-> [batch_id |-> bs[i].batch_id, value |-> JsonNumber(bs[i].value)]]
ParseBatches(js) ==
    [i \in 1..Len(js) |-> [batch_id |-> js[i].batch_id, value |-> ParseNumber(js[i].value)]]

\* data.get(key, default) on the JSON object read from the file
Get(data, key, default) == IF key \in DOMAIN data THEN data[key] ELSE default

\* The file holds one JSON object, modelled as a record of the keys present
\* (the keys device_id and process_type are written but never read back).
save_data(s) ==
    [s EXCEPT !.data_file =
        [exists |-> TRUE,
         data |-> [batches |-> JsonBatches(s.batches),
                   target |-> JsonNumber(s.TARGET),
                   lower_limit |-> JsonNumber(s.LOWER_LIMIT),
                   upper_limit |-> JsonNumber(s.UPPER_LIMIT),
                   input_mode |-> s.input_mode,
                   liquid_change_reminded |-> s.liquid_change_reminded]]]

\* variant: a failed write also drops the undo history
save_data_failed_forgets(s, left) == [s EXCEPT !.data_file = left, !.operation_stack = <<>>]

\* save_data when the write raises: the exception is printed and swallowed,
\* the engine goes on with the state it has; the file is what the failed
\* write left (untouched if open failed, cut short if the write did)
save_data_failed(s, left) == [s EXCEPT !.data_file = left]

\* load_data's except branch: json.load or a conversion raised
load_data_except(s) ==
    [s EXCEPT !.batches = <<>>, !.TARGET = DEFAULT_TARGET,
              !.LOWER_LIMIT = DEFAULT_LOWER_LIMIT, !.UPPER_LIMIT = DEFAULT_UPPER_LIMIT,
              !.liquid_change_reminded = FALSE]

\* variant: a record without a batch list yields one contribution holding its total
load_data_legacy_total(s) ==
    IF s.data_file.exists /\ "data" \notin DOMAIN s.data_file
    THEN load_data_except(s)
    ELSE IF s.data_file.exists
    THEN LET data == s.data_file.data
             bs == IF "batches" \in DOMAIN data THEN ParseBatches(data.batches)
                   ELSE IF "total" \in DOMAIN data
                        THEN <<[batch_id |-> "legacy", value |-> ParseNumber(data.total)]>>
                        ELSE <<>>
         IN [s EXCEPT !.batches = bs,
                      !.TARGET = ParseNumber(Get(data, "target", JsonNumber(DEFAULT_TARGET))),
                      !.LOWER_LIMIT = ParseNumber(Get(data, "lower_limit", JsonNumber(DEFAULT_LOWER_LIMIT))),
                      !.UPPER_LIMIT = ParseNumber(Get(data, "upper_limit", JsonNumber(DEFAULT_UPPER_LIMIT))),
                      !.input_mode = Get(data, "input_mode", "integer"),
                      !.liquid_change_reminded = Get(data, "liquid_change_reminded", FALSE),
                      !.has_decimal = AnyFractional(bs)]
    ELSE [s EXCEPT !.TARGET = DEFAULT_TARGET, !.LOWER_LIMIT = DEFAULT_LOWER_LIMIT,
                   !.UPPER_LIMIT = DEFAULT_UPPER_LIMIT, !.batches = <<>>,
                   !.liquid_change_reminded = FALSE]

load_data(s) ==
    IF s.data_file.exists /\ "data" \notin DOMAIN s.data_file
    THEN load_data_except(s)
    ELSE IF s.data_file.exists
    THEN LET data == s.data_file.data
             bs == IF "batches" \in DOMAIN data THEN ParseBatches(data.batches) ELSE <<>>
         IN [s EXCEPT !.batches = bs,
                      !.TARGET = ParseNumber(Get(data, "target", JsonNumber(DEFAULT_TARGET))),
                      !.LOWER_LIMIT = ParseNumber(Get(data, "lower_limit", JsonNumber(DEFAULT_LOWER_LIMIT))),
                      !.UPPER_LIMIT = ParseNumber(Get(data, "upper_limit", JsonNumber(DEFAULT_UPPER_LIMIT))),
                      !.input_mode = Get(data, "input_mode", "integer"),
                      !.liquid_change_reminded = Get(data, "liquid_change_reminded", FALSE),
                      !.has_decimal = AnyFractional(bs)]
    ELSE [s EXCEPT !.TARGET = DEFAULT_TARGET, !.LOWER_LIMIT = DEFAULT_LOWER_LIMIT,
                   !.UPPER_LIMIT = DEFAULT_UPPER_LIMIT, !.batches = <<>>,
                   !.liquid_change_reminded = FALSE]

\* __init__: the fields' initial values, then load_data, _update_total_from_batches,
\* check_target_limits.
construct(file, mode) ==
    LET s0 == [batches |-> <<>>, operation_stack |-> <<>>,
               over_target_upper |-> FALSE, below_target_lower |-> FALSE,
               TARGET |-> DEFAULT_TARGET, LOWER_LIMIT |-> DEFAULT_LOWER_LIMIT,
               UPPER_LIMIT |-> DEFAULT_UPPER_LIMIT, has_decimal |-> FALSE,
               liquid_change_reminded |-> FALSE, input_mode |-> mode, data_file |-> file]
    IN check_target_limits(update_total_from_batches(load_data(s0)))

\* variant: a batch id already in the ledger is refused
add_batch_unique_ids(s, batch_id, value) ==
    IF \E i \in 1..Len(s.batches) : s.batches[i].batch_id = batch_id THEN s
    ELSE LET s1 == IF IsFractional(value) THEN [s EXCEPT !.has_decimal = TRUE] ELSE s
             s2 == [s1 EXCEPT !.operation_stack =
                       Append(@, [type |-> "add_batch",
                                  batch |-> [batch_id |-> batch_id, value |-> value],
                                  previous_total |-> total(s1)])]
             s3 == [s2 EXCEPT !.batches = Append(@, [batch_id |-> batch_id, value |-> value])]
         IN check_target_limits(s3)

add_batch(s, batch_id, value) ==
    LET s1 == IF IsFractional(value) THEN [s EXCEPT !.has_decimal = TRUE] ELSE s
        s2 == [s1 EXCEPT !.operation_stack =
                  Append(@, [type |-> "add_batch",
                             batch |-> [batch_id |-> batch_id, value |-> value],
                             previous_total |-> total(s1)])]
        s3 == [s2 EXCEPT !.batches = Append(@, [batch_id |-> batch_id, value |-> value])]
    IN check_target_limits(s3)

add_batch_ret(s, batch_id, value) == RetNumber(total(add_batch(s, batch_id, value)))

\* variant: the oldest contribution is removed instead of the newest
pop_batch_first(bs) == Tail(bs)

\* variant: the value of the oldest contribution is reported
popped_batch_first(bs) == Head(bs)

\* list.pop() on the ledger: the last element is removed and returned
pop_batch(bs) == Front(bs)
popped_batch(bs) == Last(bs)

\* variant: the derived flags are not recomputed after the removal
undo_add_batch_stale(p) ==
    IF p.batches = <<>> THEN p
    ELSE check_decimal_status(update_total_from_batches(
             [p EXCEPT !.batches = pop_batch(@)]))

\* undo of an "add_batch" record, after the record was popped
undo_add_batch(p) ==
    IF p.batches = <<>> THEN p   \* IndexError: pop from empty list
    ELSE check_target_limits(check_decimal_status(update_total_from_batches(
             [p EXCEPT !.batches = pop_batch(@)])))

\* variant: the reminder flag is raised instead of cleared
undo_reset_raises_flag(p, last_operation) ==
    [check_target_limits(check_decimal_status(update_total_from_batches(
         [p EXCEPT !.batches = last_operation.previous_batches])))
       EXCEPT !.liquid_change_reminded = TRUE]

\* variant: the reminder flag is left as it is
undo_reset_keeps_flag(p, last_operation) ==
    check_target_limits(check_decimal_status(update_total_from_batches(
        [p EXCEPT !.batches = last_operation.previous_batches])))

\* undo of a "reset" record
undo_reset(p, last_operation) ==
    [check_target_limits(check_decimal_status(update_total_from_batches(
         [p EXCEPT !.batches = last_operation.previous_batches])))
       EXCEPT !.liquid_change_reminded = FALSE]

undo_set_target(p, last_operation) ==
    check_target_limits([p EXCEPT !.TARGET = last_operation.previous_target])

undo_set_lower_limit(p, last_operation) ==
    check_target_limits([p EXCEPT !.LOWER_LIMIT = last_operation.previous_lower_limit])

\* variant: the value being undone is written back
undo_set_upper_limit_new(p, last_operation) ==
    check_target_limits([p EXCEPT !.UPPER_LIMIT = last_operation.new_upper_limit])

undo_set_upper_limit(p, last_operation) ==
    check_target_limits([p EXCEPT !.UPPER_LIMIT = last_operation.previous_upper_limit])

undo_last_action(s) ==
    IF s.operation_stack = <<>> THEN s
    ELSE LET last_operation == Last(s.operation_stack)
             p == [s EXCEPT !.operation_stack = Front(@)]
         IN CASE last_operation.type = "add_batch" -> undo_add_batch(p)
              [] last_operation.type = "reset" -> undo_reset(p, last_operation)
              [] last_operation.type = "set_target" -> undo_set_target(p, last_operation)
              [] last_operation.type = "set_lower_limit" -> undo_set_lower_limit(p, last_operation)
              [] last_operation.type = "set_upper_limit" -> undo_set_upper_limit(p, last_operation)

undo_last_action_ret(s) ==
    IF s.operation_stack = <<>> THEN RetNone
    ELSE LET last_operation == Last(s.operation_stack)
         IN CASE last_operation.type = "add_batch" ->
                   IF s.batches = <<>> THEN Ret("IndexError", "", 0)
                   ELSE RetNumber(popped_batch(s.batches).value)
              [] last_operation.type = "reset" -> RetNumber(0)
              [] last_operation.type = "set_target" -> RetNumber(last_operation.new_target)
              [] last_operation.type = "set_lower_limit" -> RetNumber(last_operation.new_lower_limit)
              [] last_operation.type = "set_upper_limit" -> RetNumber(last_operation.new_upper_limit)

\* variant: the reminder flag survives the reset
reset_total_keeps_flag(s) ==
    IF total(s) = 0 THEN s
    ELSE LET s1 == [s EXCEPT !.operation_stack =
                       Append(@, [type |-> "reset", previous_batches |-> s.batches])]
             s2 == [s1 EXCEPT !.batches = <<>>, !.has_decimal = FALSE]
         IN check_target_limits(s2)

\* variant: no early return, a reset record is pushed even when total is 0
reset_total_always(s) ==
    LET s1 == [s EXCEPT !.operation_stack =
                  Append(@, [type |-> "reset", previous_batches |-> s.batches])]
        s2 == [s1 EXCEPT !.batches = <<>>, !.has_decimal = FALSE,
                         !.liquid_change_reminded = FALSE]
    IN check_target_limits(s2)

reset_total(s) ==
    IF total(s) = 0 THEN s
    ELSE LET s1 == [s EXCEPT !.operation_stack =
                       Append(@, [type |-> "reset", previous_batches |-> s.batches])]
             s2 == [s1 EXCEPT !.batches = <<>>, !.has_decimal = FALSE,
                              !.liquid_change_reminded = FALSE]
         IN check_target_limits(s2)

reset_total_ret(s) == IF total(s) = 0 THEN RetFalse ELSE RetNumber(total(s))

\* variant: the record keeps the value that was replaced as its new value
set_target_stale_record(s, new_target) ==
    LET s1 == [s EXCEPT !.operation_stack =
                  Append(@, [type |-> "set_target", previous_target |-> s.TARGET,
                             new_target |-> s.TARGET])]
    IN check_target_limits([s1 EXCEPT !.TARGET = new_target])

set_target(s, new_target) ==
    LET s1 == [s EXCEPT !.operation_stack =
                  Append(@, [type |-> "set_target", previous_target |-> s.TARGET,
                             new_target |-> new_target])]
    IN check_target_limits([s1 EXCEPT !.TARGET = new_target])

set_target_ret(s, new_target) == RetNumber(s.TARGET)

\* variant: a lower limit above the upper limit is refused
set_lower_limit_validated(s, new_lower_limit) ==
    IF new_lower_limit > s.UPPER_LIMIT THEN s
    ELSE LET s1 == [s EXCEPT !.operation_stack =
                       Append(@, [type |-> "set_lower_limit", previous_lower_limit |-> s.LOWER_LIMIT,
                                  new_lower_limit |-> new_lower_limit])]
         IN check_target_limits([s1 EXCEPT !.LOWER_LIMIT = new_lower_limit])

set_lower_limit(s, new_lower_limit) ==
    LET s1 == [s EXCEPT !.operation_stack =
                  Append(@, [type |-> "set_lower_limit", previous_lower_limit |-> s.LOWER_LIMIT,
                             new_lower_limit |-> new_lower_limit])]
    IN check_target_limits([s1 EXCEPT !.LOWER_LIMIT = new_lower_limit])

set_lower_limit_ret(s, new_lower_limit) == RetNumber(s.LOWER_LIMIT)

set_upper_limit(s, new_upper_limit) ==
    LET s1 == [s EXCEPT !.operation_stack =
                  Append(@, [type |-> "set_upper_limit", previous_upper_limit |-> s.UPPER_LIMIT,
                             new_upper_limit |-> new_upper_limit])]
    IN check_target_limits([s1 EXCEPT !.UPPER_LIMIT = new_upper_limit])

set_upper_limit_ret(s, new_upper_limit) == RetNumber(s.UPPER_LIMIT)

\* total >= LOWER_LIMIT and total < TARGET, as tested by the reminder and by get_status
in_change_band(s) == total(s) >= s.LOWER_LIMIT /\ total(s) < s.TARGET

\* variant: the flag is not latched by the first notice
check_liquid_change_reminder_unlatched(s) ==
    IF s.over_target_upper THEN s
    ELSE IF in_change_band(s) THEN s
         ELSE IF total(s) < s.LOWER_LIMIT
              THEN [s EXCEPT !.liquid_change_reminded = FALSE]
              ELSE s

\* variant: the band is tested before the upper limit
check_liquid_change_reminder_ret_band_first(s) ==
    IF in_change_band(s)
    THEN IF ~s.liquid_change_reminded
         THEN Ret("Notice", "reached", 0)
         ELSE Ret("Notice", "pending", 0)
    ELSE IF s.over_target_upper THEN Ret("Forced", "upper", 0)
    ELSE RetNone

\* Return tags: "Forced" is the forced reminder, "Notice" the ordinary one;
\* "reached" is the first notice, "pending" the repeated one.
check_liquid_change_reminder(s) ==
    IF s.over_target_upper THEN s
    ELSE IF in_change_band(s)
         THEN IF ~s.liquid_change_reminded
              THEN save_data([s EXCEPT !.liquid_change_reminded = TRUE])
              ELSE s
         ELSE IF total(s) < s.LOWER_LIMIT
              THEN [s EXCEPT !.liquid_change_reminded = FALSE]
              ELSE s

check_liquid_change_reminder_ret(s) ==
    IF s.over_target_upper THEN Ret("Forced", "upper", 0)
    ELSE IF in_change_band(s)
         THEN IF ~s.liquid_change_reminded
              THEN Ret("Notice", "reached", 0)
              ELSE Ret("Notice", "pending", 0)
         ELSE RetNone

get_status(s) ==
    IF s.over_target_upper THEN "OverUpper"
    ELSE IF in_change_band(s) THEN "NeedsChange"
    ELSE "Normal"

is_out_of_range(s) == s.over_target_upper \/ s.below_target_lower

\* variant: an empty stack counts as undoable too
can_undo_always(s) == Len(s.operation_stack) >= 0

can_undo(s) == Len(s.operation_stack) > 0

\* ------------------------------------------------------------- history
\* What a caller can observe of the engine, recorded at each push.
Observe(s) == [batches |-> s.batches, total |-> total(s),
               TARGET |-> s.TARGET, LOWER_LIMIT |-> s.LOWER_LIMIT,
               UPPER_LIMIT |-> s.UPPER_LIMIT,
               over_target_upper |-> s.over_target_upper,
               below_target_lower |-> s.below_target_lower,
               liquid_change_reminded |-> s.liquid_change_reminded]

NoUndone == [valid |-> FALSE]

\* Calls that pop a record, and calls that only run the reminder check or a save.
UndoOps == {"undo_last_action", "undo_process"}
RestartOps == {"restart", "crash_in_save"}
QueryOps == {"check_liquid_change_reminder", "save_data", "on_scan_cancel"}

\* The engine fields take the values of record t; the history follows the
\* stack: seen[i] is the engine as it was when the i-th new record was pushed.
CommitVia(seen, t, op, ret) ==
    /\ batches' = t.batches
    /\ operation_stack' = t.operation_stack
    /\ over_target_upper' = t.over_target_upper
    /\ below_target_lower' = t.below_target_lower
    /\ TARGET' = t.TARGET
    /\ LOWER_LIMIT' = t.LOWER_LIMIT
    /\ UPPER_LIMIT' = t.UPPER_LIMIT
    /\ has_decimal' = t.has_decimal
    /\ liquid_change_reminded' = t.liquid_change_reminded
    /\ input_mode' = t.input_mode
    /\ data_file' = t.data_file
    /\ last_op' = op
    /\ result' = ret
    /\ shadow' = IF op = "construct" THEN <<>>
                 ELSE IF Len(t.operation_stack) > Len(operation_stack)
                      THEN shadow \o [i \in 1..(Len(t.operation_stack) - Len(operation_stack))
                                         |-> Observe(seen[i])]
                      ELSE SubSeq(shadow, 1, Len(t.operation_stack))
    /\ undone' = IF op \in QueryOps THEN undone
                 ELSE IF op \in UndoOps /\ operation_stack # <<>>
                 THEN [valid |-> TRUE, op |-> Last(operation_stack), seen |-> Last(shadow)]
                 ELSE NoUndone
    /\ run' = IF op \in QueryOps THEN run
              ELSE IF op \in UndoOps
                   THEN IF run.k < run.n THEN [run EXCEPT !.k = @ + 1]
                        ELSE [op |-> "none", n |-> 0, k |-> 0]
                   ELSE IF Len(t.operation_stack) > Len(operation_stack)
                        THEN IF run.op = op /\ run.k = 0 THEN [run EXCEPT !.n = @ + 1]
                             ELSE [op |-> op, n |-> 1, k |-> 0]
                        ELSE [op |-> "none", n |-> 0, k |-> 0]
    /\ restarts' = IF op \in RestartOps THEN restarts + 1 ELSE restarts
    /\ UNCHANGED app_vars

Commit(t, op, ret) == CommitVia(<<Self>>, t, op, ret)

\* ------------------------------------------------------------------- Init
Init ==
    LET s == construct(NoFile, "integer")
    IN /\ batches = s.batches
       /\ operation_stack = s.operation_stack
       /\ over_target_upper = s.over_target_upper
       /\ below_target_lower = s.below_target_lower
       /\ TARGET = s.TARGET
       /\ LOWER_LIMIT = s.LOWER_LIMIT
       /\ UPPER_LIMIT = s.UPPER_LIMIT
       /\ has_decimal = s.has_decimal
       /\ liquid_change_reminded = s.liquid_change_reminded
       /\ input_mode = s.input_mode
       /\ data_file = s.data_file
       /\ last_op = "construct"
       /\ result = RetNone
       /\ shadow = <<>>
       /\ undone = NoUndone
       /\ run = [op |-> "none", n |-> 0, k |-> 0]
       /\ restarts = 0
       /\ files = <<>>
       /\ device_tabs = <<>>
       /\ log_entries = <<>>
       /\ history_logs = <<>>

\* ---------------------------------------------------------------- actions
CanPush == Len(operation_stack) < MaxOps

AddBatch ==
    /\ CanPush
    /\ Len(batches) < MaxBatches
    /\ \E c \in Contributions :
          Commit(add_batch(Self, c.batch_id, c.value), "add_batch",
                 add_batch_ret(Self, c.batch_id, c.value))

UndoLastAction ==
    Commit(undo_last_action(Self), "undo_last_action", undo_last_action_ret(Self))

ResetTotal ==
    /\ CanPush
    /\ Commit(reset_total(Self), "reset_total", reset_total_ret(Self))

SetTarget ==
    /\ CanPush
    /\ \E v \in ThresholdInputs :
          Commit(set_target(Self, v), "set_target", set_target_ret(Self, v))

SetLowerLimit ==
    /\ CanPush
    /\ \E v \in ThresholdInputs :
          Commit(set_lower_limit(Self, v), "set_lower_limit", set_lower_limit_ret(Self, v))

SetUpperLimit ==
    /\ CanPush
    /\ \E v \in ThresholdInputs :
          Commit(set_upper_limit(Self, v), "set_upper_limit", set_upper_limit_ret(Self, v))

CheckLiquidChangeReminder ==
    Commit(check_liquid_change_reminder(Self), "check_liquid_change_reminder",
           check_liquid_change_reminder_ret(Self))

Next ==
    \/ AddBatch
    \/ UndoLastAction
    \/ ResetTotal
    \/ SetTarget
    \/ SetLowerLimit
    \/ SetUpperLimit
    \/ CheckLiquidChangeReminder

Spec == Init /\ [][Next]_vars

\* ---------------------------------------------------------------- DeviceTab
\* The handlers of the device tab, each one whole: the engine calls it makes,
\* its writes to engine fields, its save_data and its reminder checks.

\* integer_min..integer_max = 1..50 and decimal_min..decimal_max = 0..3
integer_min == 100
integer_max == 5000
decimal_min == 0
decimal_max == 300

\* what the piece-count dialogs accept in each input mode
PieceInputs(mode) ==
    IF mode = "integer"
    THEN {v \in {0, 50, 100} : ~IsFractional(v) /\ v >= integer_min /\ v <= integer_max}
    ELSE {v \in {0, 50} : v >= decimal_min /\ v <= decimal_max}

BatchIdFor(v) == IF v = 100 THEN "B" ELSE "A"

\* initial values offered to set_initial_value (zero is accepted after a confirmation)
InitialValues == {0, 100}

\* on_scan + prompt_for_pieces, the dialog confirmed: reminder check, then
\* add_batch, save_data and the reminder check again
on_scan_saved(s, batch_id, value) ==
    save_data(add_batch(check_liquid_change_reminder(s), batch_id, value))
on_scan(s, batch_id, value) ==
    check_liquid_change_reminder(on_scan_saved(s, batch_id, value))
on_scan_ret(s, batch_id, value) ==
    check_liquid_change_reminder_ret(on_scan_saved(s, batch_id, value))

\* on_scan + prompt_for_pieces, the dialog cancelled: only the first reminder check ran
on_scan_cancel(s) == check_liquid_change_reminder(s)
on_scan_cancel_ret(s) == check_liquid_change_reminder_ret(s)

\* add_batch_dialog: add_batch, save_data, reminder check
add_batch_dialog(s, batch_id, value) ==
    check_liquid_change_reminder(save_data(add_batch(s, batch_id, value)))
add_batch_dialog_ret(s, batch_id, value) ==
    check_liquid_change_reminder_ret(save_data(add_batch(s, batch_id, value)))

\* undo_process: undo_last_action, then save_data unless the undo raised
undo_process(s) ==
    IF undo_last_action_ret(s).kind = "IndexError" THEN undo_last_action(s)
    ELSE save_data(undo_last_action(s))

reset_process(s) == save_data(reset_total(s))

set_target_dialog(s, v) == save_data(set_target(s, v))
set_lower_limit_dialog(s, v) == save_data(set_lower_limit(s, v))
set_upper_limit_dialog(s, v) == save_data(set_upper_limit(s, v))

\* variant: the ledger that is replaced is not recorded
set_initial_value_cleared_unrecorded(s) == [s EXCEPT !.batches = <<>>]

\* set_initial_value up to the point where the ledger has been emptied
set_initial_value_cleared(s) ==
    LET s1 == IF s.batches # <<>>
              THEN [s EXCEPT !.operation_stack =
                       Append(@, [type |-> "reset", previous_batches |-> s.batches])]
              ELSE s
    IN [s1 EXCEPT !.batches = <<>>]

\* ... and up to the reminder check that ends it
set_initial_value_stored(s, value) ==
    LET s3 == save_data(add_batch(set_initial_value_cleared(s), "sample", value))
    IN check_target_limits([s3 EXCEPT !.liquid_change_reminded = FALSE])

set_initial_value(s, value) == check_liquid_change_reminder(set_initial_value_stored(s, value))
set_initial_value_ret(s, value) == check_liquid_change_reminder_ret(set_initial_value_stored(s, value))

\* variant: the reminder flag is not written
clear_all_processes_keeps_flag(s) ==
    LET s1 == IF total(s) > 0
              THEN [s EXCEPT !.operation_stack =
                       Append(@, [type |-> "reset", previous_batches |-> s.batches])]
              ELSE s
    IN save_data([s1 EXCEPT !.batches = <<>>, !.has_decimal = FALSE])

\* clear_all_processes, for one process of the device
clear_all_processes(s) ==
    LET s1 == IF total(s) > 0
              THEN [s EXCEPT !.operation_stack =
                       Append(@, [type |-> "reset", previous_batches |-> s.batches])]
              ELSE s
    IN save_data([s1 EXCEPT !.batches = <<>>, !.has_decimal = FALSE,
                            !.liquid_change_reminded = FALSE])

change_input_mode(s) ==
    save_data([s EXCEPT !.input_mode = IF @ = "integer" THEN "decimal" ELSE "integer"])

\* ------------------------------------------------------- DeviceTab actions
OnScan ==
    /\ ~over_target_upper
    /\ CanPush
    /\ Len(batches) < MaxBatches
    /\ \E v \in PieceInputs(input_mode) :
          Commit(on_scan(Self, BatchIdFor(v), v), "on_scan", on_scan_ret(Self, BatchIdFor(v), v))

OnScanCancel ==
    /\ ~over_target_upper
    /\ Commit(on_scan_cancel(Self), "on_scan_cancel", on_scan_cancel_ret(Self))

AddBatchDialog ==
    /\ ~over_target_upper
    /\ CanPush
    /\ Len(batches) < MaxBatches
    /\ \E v \in PieceInputs(input_mode) :
          Commit(add_batch_dialog(Self, BatchIdFor(v), v), "add_batch_dialog",
                 add_batch_dialog_ret(Self, BatchIdFor(v), v))

UndoProcess ==
    /\ can_undo(Self)
    /\ Commit(undo_process(Self), "undo_process", undo_last_action_ret(Self))

ResetProcess ==
    /\ total(Self) # 0
    /\ CanPush
    /\ Commit(reset_process(Self), "reset_process", reset_total_ret(Self))

SetTargetDialog ==
    /\ CanPush
    /\ \E v \in {x \in ThresholdInputs : x >= 0} :
          Commit(set_target_dialog(Self, v), "set_target_dialog", set_target_ret(Self, v))

SetLowerLimitDialog ==
    /\ CanPush
    /\ \E v \in {x \in ThresholdInputs : x >= 0} :
          Commit(set_lower_limit_dialog(Self, v), "set_lower_limit_dialog",
                 set_lower_limit_ret(Self, v))

SetUpperLimitDialog ==
    /\ CanPush
    /\ \E v \in {x \in ThresholdInputs : x >= 0} :
          Commit(set_upper_limit_dialog(Self, v), "set_upper_limit_dialog",
                 set_upper_limit_ret(Self, v))

SetInitialValue ==
    /\ Len(operation_stack) + (IF batches # <<>> THEN 2 ELSE 1) <= MaxOps
    /\ \E v \in InitialValues :
          CommitVia(IF batches # <<>> THEN <<Self, set_initial_value_cleared(Self)>>
                    ELSE <<set_initial_value_cleared(Self)>>,
                    set_initial_value(Self, v), "set_initial_value",
                    set_initial_value_ret(Self, v))

\* The device may hold other processes, so the handler also runs on a process
\* whose own ledger is empty.
ClearAllProcesses ==
    /\ total(Self) > 0 => CanPush
    /\ Commit(clear_all_processes(Self), "clear_all_processes", RetNone)

ChangeInputMode ==
    Commit(change_input_mode(Self), "change_input_mode", RetNone)

\* The application is started again: after on_closing, which saves every
\* engine, or after a kill, which saves nothing.  The engine is constructed
\* from the file; a process without a file is created anew in a chosen mode.
Restart ==
    /\ restarts < MaxRestarts
    /\ \E closed \in BOOLEAN, mode \in {"integer", "decimal"} :
          LET file == IF closed THEN save_data(Self).data_file ELSE data_file
          IN Commit(construct(file, mode), "restart", RetNone)

AppNext ==
    \/ OnScan
    \/ OnScanCancel
    \/ AddBatchDialog
    \/ UndoProcess
    \/ ResetProcess
    \/ SetTargetDialog
    \/ SetLowerLimitDialog
    \/ SetUpperLimitDialog
    \/ SetInitialValue
    \/ ClearAllProcesses
    \/ ChangeInputMode
    \/ Restart

AppSpec == Init /\ [][AppNext]_vars

\* ------------------------------------------------------------ loading
\* Records found on disk at start-up: written by this version, or by an
\* older one that stored an aggregate total and no batch list; any key may
\* be missing.
OptionalKey(key, values) == {<<>>} \cup {[k \in {key} |-> v] : v \in values}

PersistedRecords ==
    {[exists |-> TRUE, data |-> b @@ g @@ t @@ l @@ u @@ m @@ r] :
        b \in OptionalKey("batches", {<<>>, JsonBatches(<<[batch_id |-> "A", value |-> 50]>>)}),
        g \in OptionalKey("total", {JsonNumber(150)}),
        t \in OptionalKey("target", {JsonNumber(100)}),
        l \in OptionalKey("lower_limit", {JsonNumber(100)}),
        u \in OptionalKey("upper_limit", {JsonNumber(0)}),
        m \in OptionalKey("input_mode", {"integer", "decimal"}),
        r \in OptionalKey("liquid_change_reminded", {FALSE, TRUE})}

LoadInit ==
    \E file \in PersistedRecords \cup {NoFile} :
        LET s == construct(file, "integer")
        IN /\ batches = s.batches
           /\ operation_stack = s.operation_stack
           /\ over_target_upper = s.over_target_upper
           /\ below_target_lower = s.below_target_lower
           /\ TARGET = s.TARGET
           /\ LOWER_LIMIT = s.LOWER_LIMIT
           /\ UPPER_LIMIT = s.UPPER_LIMIT
           /\ has_decimal = s.has_decimal
           /\ liquid_change_reminded = s.liquid_change_reminded
           /\ input_mode = s.input_mode
           /\ data_file = s.data_file
           /\ last_op = "construct"
           /\ result = RetNone
           /\ shadow = <<>>
           /\ undone = NoUndone
           /\ run = [op |-> "none", n |-> 0, k |-> 0]
           /\ restarts = 0
           /\ files = <<>>
           /\ device_tabs = <<>>
           /\ log_entries = <<>>
           /\ history_logs = <<>>

LoadNext == Restart

LoadSpec == LoadInit /\ [][LoadNext]_vars

\* ------------------------------------------------------------------ faults
\* The engine with a disk that can fail and a process that can be killed:
\* the caller's mutation and its save_data are separate steps, and
\* save_data either completes, or raises (swallowed), or is cut by a kill.
SaveErrorMsg == "save error"

SaveData ==
    \/ Commit(save_data(Self), "save_data", RetNone)
    \/ \E left \in {data_file, CorruptFile} :
          Commit(save_data_failed(Self, left), "save_data", Ret("None", SaveErrorMsg, 0))

\* open(..., "w") truncates the file and json.dump writes it piece by piece:
\* a kill during save_data leaves the old file (before open), a file cut
\* short, or the complete new file.  The application is then started again.
CrashInSave ==
    /\ restarts < MaxRestarts
    /\ \E file \in {data_file, CorruptFile, save_data(Self).data_file},
          mode \in {"integer", "decimal"} :
          Commit(construct(file, mode), "crash_in_save", RetNone)

FaultNext ==
    \/ AddBatch
    \/ UndoLastAction
    \/ ResetTotal
    \/ SetTarget
    \/ SaveData
    \/ CrashInSave
    \/ Restart

FaultSpec == Init /\ [][FaultNext]_vars

\* ---------------------------------------------------------- data directory
\* Device ids and process types are strings typed by the user (add_device,
\* add_process: any non-empty text).  A string is modelled as the sequence
\* of its pieces between underscores: <<"a", "b">> is "a_b".
DeviceIds == {<<"a">>, <<"a", "b">>}
ProcessTypes == {<<"c">>, <<"b", "c">>}
DirBatchIds == {"A"}

\* DATA_FILE: counter_data_{device_id}_{process_type}.json, as the pieces
\* between "counter_data_" and ".json"
FileName(device_id, process_type) == device_id \o process_type

\* filename.startswith(f"counter_data_{device_id}_")
StartsWithDevice(filename, device_id) ==
    /\ Len(filename) > Len(device_id)
    /\ SubSeq(filename, 1, Len(device_id)) = device_id

FileRecord(filename) == IF filename \in DOMAIN files THEN files[filename].record ELSE NoFile

\* what save_data of the engine of (device_id, process_type) leaves in the
\* directory: the record, with the keys device_id and process_type
Written(device_id, process_type, t) ==
    (FileName(device_id, process_type) :>
        [owner |-> <<device_id, process_type>>, record |-> t.data_file]) @@ files

\* the engine as device_tabs holds it (its file is in the directory)
Held(t) == [t EXCEPT !.data_file = NoFile]
HeldAt(device_id, process_type) ==
    [device_tabs[device_id][process_type] EXCEPT
        !.data_file = FileRecord(FileName(device_id, process_type))]

\* load_existing_processes of the tab of device_id: process type |-> engine
load_existing_processes(device_id) ==
    LET found == {f \in DOMAIN files :
                     /\ StartsWithDevice(f, device_id)
                     /\ Len(f) >= 2
                     /\ <<f[1]>> = device_id}
    IN [process_type \in {SubSeq(f, 2, Len(f)) : f \in found} |->
          LET record == files[FileName(device_id, process_type)].record
          IN Held(construct(record, Get(record.data, "input_mode", "integer")))]

\* load_existing_devices: device id |-> tab
load_existing_devices ==
    [device_id \in {<<f[1]>> : f \in DOMAIN files} |-> load_existing_processes(device_id)]

DirStep(op) ==
    /\ last_op' = op
    /\ UNCHANGED <<engine_vars, result, shadow, undone, run, restarts, log_entries, history_logs>>

AddDevice ==
    \E device_id \in DeviceIds :
        /\ device_id \notin DOMAIN device_tabs
        /\ device_tabs' = (device_id :> load_existing_processes(device_id)) @@ device_tabs
        /\ files' = files
        /\ DirStep("add_device")

\* add_process with its dialog: create_process_data with a first batch
AddProcess ==
    \E device_id \in DOMAIN device_tabs, process_type \in ProcessTypes,
       batch_id \in DirBatchIds, value \in PieceInputs("integer") :
        /\ process_type \notin DOMAIN device_tabs[device_id]
        /\ LET s == construct(FileRecord(FileName(device_id, process_type)), "integer")
               t == save_data(add_batch(s, batch_id, value))
           IN /\ Len(s.batches) < MaxBatches
              /\ files' = Written(device_id, process_type, t)
              /\ device_tabs' = [device_tabs EXCEPT
                                   ![device_id] = (process_type :> Held(t)) @@ @]
        /\ DirStep("add_process")

\* add_batch_dialog on one process of one device
DirAddBatch ==
    \E device_id \in DOMAIN device_tabs, batch_id \in DirBatchIds,
       value \in PieceInputs("integer") :
        \E process_type \in DOMAIN device_tabs[device_id] :
            LET s == HeldAt(device_id, process_type)
                t == add_batch_dialog(s, batch_id, value)
            IN /\ ~s.over_target_upper
               /\ Len(s.batches) < MaxBatches
               /\ Len(s.operation_stack) < MaxOps
               /\ files' = Written(device_id, process_type, t)
               /\ device_tabs' = [device_tabs EXCEPT ![device_id][process_type] = Held(t)]
               /\ DirStep("add_batch_dialog")

\* MainApplication.delete_device
DeleteDevice ==
    \E device_id \in DOMAIN device_tabs :
        /\ files' = [f \in {g \in DOMAIN files : ~StartsWithDevice(g, device_id)} |-> files[f]]
        /\ device_tabs' = [d \in DOMAIN device_tabs \ {device_id} |-> device_tabs[d]]
        /\ DirStep("delete_device")

\* The application is started again on the directory as it is.
StartUp ==
    /\ device_tabs' = load_existing_devices
    /\ files' = files
    /\ DirStep("start_up")

DirNext ==
    \/ AddDevice
    \/ AddProcess
    \/ DirAddBatch
    \/ DeleteDevice
    \/ StartUp

DirSpec == Init /\ [][DirNext]_vars

\* --------------------------------------------------------------------- log
\* MainApplication.log_entries and the history file.  An entry is modelled
\* by its serial number: the n-th entry ever logged is n.
LastOf(seq, n) == IF Len(seq) <= n THEN seq ELSE SubSeq(seq, Len(seq) - n + 1, Len(seq))
FirstOf(seq, n) == IF Len(seq) <= n THEN seq ELSE SubSeq(seq, 1, n)

\* save_history_logs(old_logs): the new contents of the history file
save_history_logs(history, old_logs) == LastOf(history \o old_logs, HistoryLimit)

Logged == IF log_entries = <<>> THEN 0 ELSE Last(log_entries)

AddLogEntry ==
    /\ Logged < MaxLogged
    /\ LET appended == Append(log_entries, Logged + 1)
       IN IF Len(appended) > LogLimit
          THEN /\ history_logs' = save_history_logs(history_logs, FirstOf(appended, LogArchived))
               /\ log_entries' = LastOf(appended, LogKept)
          ELSE /\ history_logs' = history_logs
               /\ log_entries' = appended
    /\ last_op' = "add_log_entry"
    /\ UNCHANGED <<engine_vars, result, shadow, undone, run, restarts, files, device_tabs>>

LogNext == AddLogEntry

LogSpec == Init /\ [][LogNext]_vars

\* ------------------------------------------------------------- properties
\* The records of the current run of add_batch calls that are still on the stack.
RunLeft == run.n - run.k

RECURSIVE SumAdded(_, _)
SumAdded(stack, m) ==
    IF m = 0 THEN 0
    ELSE SumAdded(Front(stack), m - 1) + Last(stack).batch.value

\* C1: total is the sum of the values added: each add_batch(v) returns and
\* leaves total = previous total + v; after n consecutive add_batch calls
\* with v1..vn and k undos, total is the total before the run plus
\* v1+...+v(n-k) (just v1+...+v(n-k) when the ledger was empty before the
\* run); undoing an add brings total back to the total recorded at the add.
C1_TotalIsSumOfAdds ==
    /\ (last_op = "add_batch" =>
           /\ result = RetNumber(total(Self))
           /\ total(Self) = Last(shadow).total + Last(operation_stack).batch.value)
    /\ (run.op = "add_batch" /\ RunLeft > 0 =>
           LET base == shadow[Len(shadow) - RunLeft + 1]
           IN /\ total(Self) = base.total + SumAdded(operation_stack, RunLeft)
              /\ (base.batches = <<>> => total(Self) = SumAdded(operation_stack, RunLeft)))
    /\ (undone.valid /\ undone.op.type = "add_batch" =>
           /\ total(Self) = undone.seen.total
           /\ total(Self) = undone.op.previous_total)

\* two additions to an empty ledger, the second one undone
C1_Witness ==
    /\ run = [op |-> "add_batch", n |-> 2, k |-> 1]
    /\ undone.valid
    /\ undone.op.batch.value > 0
    /\ Len(batches) = 1
    /\ total(Self) > 0

\* C2: undo is LIFO: undoing an add record removes the contribution at the
\* tail of the ledger (whatever its label), which is the contribution that
\* record added, and returns its value; after add(A), add(B), undo, undo on
\* an empty ledger the ledger is empty again.
C2_UndoIsLIFO ==
    [][(/\ last_op' = "undo_last_action"
        /\ operation_stack # <<>>
        /\ Last(operation_stack).type = "add_batch")
       => /\ batches # <<>>
          /\ batches' = Front(batches)
          /\ result' = RetNumber(Last(batches).value)
          /\ Last(batches) = Last(operation_stack).batch
          /\ operation_stack' = Front(operation_stack)]_vars

\* add(A, 50), add(B, 100), undo, undo: the second undo has returned A's value
C2_Witness ==
    /\ run = [op |-> "add_batch", n |-> 2, k |-> 2]
    /\ undone.valid
    /\ undone.op.batch = [batch_id |-> "A", value |-> 50]
    /\ result = RetNumber(50)
    /\ batches = <<>>

FlagsUpToDate(s) ==
    /\ s.over_target_upper = (total(s) > s.UPPER_LIMIT)
    /\ s.below_target_lower = (s.LOWER_LIMIT <= total(s) /\ total(s) < s.TARGET)

\* C4: after construction, after a load of a saved record and after every
\* engine mutation the derived flags are up to date.
C4_FlagsUpToDate ==
    /\ FlagsUpToDate(Self)
    /\ FlagsUpToDate(construct(save_data(Self).data_file, input_mode))

\* a mutation has left total exactly on the upper limit, inside the band
C4_Witness ==
    /\ last_op \in {"add_batch", "set_upper_limit", "undo_last_action"}
    /\ batches # <<>>
    /\ total(Self) = UPPER_LIMIT
    /\ ~over_target_upper
    /\ below_target_lower

\* C5: reset_total with total # 0 returns the previous total, empties the
\* ledger, clears the reminder flag, pushes exactly one reset record holding
\* the previous sequence and leaves the three thresholds unchanged.
C5_ResetClears ==
    [][(last_op' = "reset_total" /\ total(Self) # 0)
       => /\ result' = RetNumber(total(Self))
          /\ batches' = <<>>
          /\ total(Self)' = 0
          /\ liquid_change_reminded' = FALSE
          /\ operation_stack' = Append(operation_stack,
                                       [type |-> "reset", previous_batches |-> batches])
          /\ UNCHANGED <<TARGET, LOWER_LIMIT, UPPER_LIMIT>>]_vars

\* a reset of a non-empty ledger whose reminder had been issued
C5_Witness ==
    /\ last_op = "reset_total"
    /\ result.kind = "number"
    /\ result.val > 0
    /\ Last(shadow).liquid_change_reminded
    /\ Last(shadow).batches # <<>>
    /\ batches = <<>>

\* C6: undoing a reset record puts back exactly the sequence captured at the
\* reset, so total and both derived flags are those seen before the reset;
\* the undo returns 0 and leaves the reminder flag false.
C6_UndoResetRestores ==
    (undone.valid /\ undone.op.type = "reset") =>
        /\ batches = undone.op.previous_batches
        /\ batches = undone.seen.batches
        /\ total(Self) = undone.seen.total
        /\ over_target_upper = undone.seen.over_target_upper
        /\ below_target_lower = undone.seen.below_target_lower
        /\ (last_op = "undo_last_action" =>
               /\ result = RetNumber(0)
               /\ liquid_change_reminded = FALSE)

\* a reset has been undone; the reminder had been issued before the reset
C6_Witness ==
    /\ last_op = "undo_last_action"
    /\ undone.valid
    /\ undone.op.type = "reset"
    /\ undone.seen.liquid_change_reminded
    /\ batches # <<>>
    /\ total(Self) > 0

\* C7: reset_total with total = 0 returns False and changes nothing (ledger,
\* thresholds, flags, undo stack, file); a second call does the same.
C7_ResetAtZeroIsNoOp ==
    [][(last_op' = "reset_total" /\ total(Self) = 0)
       => /\ result' = RetFalse
          /\ UNCHANGED engine_vars
          /\ can_undo(Self)' = can_undo(Self)
          /\ reset_total(reset_total(Self)) = Self
          /\ reset_total_ret(reset_total(Self)) = RetFalse]_vars

\* reset_total was called on a ledger holding only a zero-valued contribution
C7_Witness ==
    /\ last_op = "reset_total"
    /\ result = RetFalse
    /\ batches # <<>>
    /\ operation_stack # <<>>

SetterTypes == {"set_target", "set_lower_limit", "set_upper_limit"}

\* the kind of reminder due for a total under thresholds lo, tg, up
ReminderKindFor(t, lo, tg, up) ==
    IF t > up THEN "Forced"
    ELSE IF lo <= t /\ t < tg THEN "Notice"
    ELSE "None"

\* C8: undoing a set_target / set_lower_limit / set_upper_limit record
\* restores the threshold to the value it had before the setter, leaves the
\* other two thresholds and the ledger as they were, and the derived flags
\* and the reminder are those of the thresholds before the setter.
C8_SetThenUndoRestores ==
    (undone.valid /\ undone.op.type \in SetterTypes) =>
        /\ TARGET = undone.seen.TARGET
        /\ LOWER_LIMIT = undone.seen.LOWER_LIMIT
        /\ UPPER_LIMIT = undone.seen.UPPER_LIMIT
        /\ batches = undone.seen.batches
        /\ over_target_upper = (total(Self) > undone.seen.UPPER_LIMIT)
        /\ below_target_lower = (/\ undone.seen.LOWER_LIMIT <= total(Self)
                                 /\ total(Self) < undone.seen.TARGET)
        /\ check_liquid_change_reminder_ret(Self).kind =
              ReminderKindFor(total(Self), undone.seen.LOWER_LIMIT,
                              undone.seen.TARGET, undone.seen.UPPER_LIMIT)

\* set_upper_limit(v) with v below total, immediately undone, then the reminder asked
C8_Witness ==
    /\ run = [op |-> "set_upper_limit", n |-> 1, k |-> 1]
    /\ undone.valid
    /\ undone.op.type = "set_upper_limit"
    /\ undone.op.new_upper_limit < total(Self)
    /\ UPPER_LIMIT = undone.op.previous_upper_limit
    /\ last_op = "check_liquid_change_reminder"
    /\ result.kind = "Notice"

\* total is inside the change band and not over the upper limit
InStay == in_change_band(Self) /\ ~(total(Self) > UPPER_LIMIT)

\* a call of check_liquid_change_reminder inside the band: the first one
\* (flag false) gives "reached" and sets the flag, a later one gives "pending"
ReminderCallContract ==
    (last_op' = "check_liquid_change_reminder" /\ InStay) =>
        /\ liquid_change_reminded' = TRUE
        /\ result' = IF liquid_change_reminded THEN Ret("Notice", "pending", 0)
                      ELSE Ret("Notice", "reached", 0)

\* this step resets the ledger or undoes a reset
LedgerResetStep ==
    \/ last_op' = "reset_total"
    \/ /\ last_op' = "undo_last_action"
       /\ operation_stack # <<>>
       /\ Last(operation_stack).type = "reset"

\* C9 as stated: inside the band the first call gives "reached" and sets the
\* flag, and the flag stays set for as long as total stays inside the band,
\* so "reached" is given at most once per stay.
C9_Original ==
    [][/\ ReminderCallContract
       /\ (InStay /\ liquid_change_reminded /\ InStay') => liquid_change_reminded']_vars

\* C9 amended: inside the band the first call gives "reached" and sets the
\* flag, and the flag stays set for as long as total stays inside the band
\* and the ledger is not reset (reset_total and the undo of a reset record
\* clear the flag even when total stays inside the band).
C9_OneShotUntilReset ==
    [][/\ ReminderCallContract
       /\ (InStay /\ liquid_change_reminded /\ InStay' /\ ~LedgerResetStep)
             => liquid_change_reminded']_vars

\* a second call inside a band with a positive lower limit has answered "pending"
C9_Witness ==
    /\ last_op = "check_liquid_change_reminder"
    /\ result = Ret("Notice", "pending", 0)
    /\ liquid_change_reminded
    /\ LOWER_LIMIT > 0
    /\ InStay

\* C10: whenever total > UPPER_LIMIT, check_liquid_change_reminder returns
\* the forced reminder, whatever the flag and the other two thresholds, and
\* leaves the flag unchanged.
C10_ForcedAboveUpper ==
    total(Self) > UPPER_LIMIT =>
        /\ check_liquid_change_reminder_ret(Self) = Ret("Forced", "upper", 0)
        /\ check_liquid_change_reminder(Self).liquid_change_reminded = liquid_change_reminded
        /\ (last_op = "check_liquid_change_reminder" => result = Ret("Forced", "upper", 0))

\* the forced reminder was returned with the flag set and total inside the band
C10_Witness ==
    /\ last_op = "check_liquid_change_reminder"
    /\ result.kind = "Forced"
    /\ liquid_change_reminded
    /\ in_change_band(Self)
    /\ total(Self) > UPPER_LIMIT

\* C14: undo_last_action on an empty undo stack returns None without raising
\* and changes nothing (ledger, thresholds, derived flags, reminder flag,
\* persisted record); can_undo is true exactly when the stack is non-empty.
C14_UndoOnEmptyStack ==
    [][/\ can_undo(Self) = (operation_stack # <<>>)
       /\ (last_op' = "undo_last_action" /\ operation_stack = <<>>)
          => /\ result' = RetNone
             /\ engine_vars' = engine_vars]_vars

\* an undo on the empty stack of an engine whose reminder flag is set
C14_Witness ==
    /\ last_op = "undo_last_action"
    /\ result = RetNone
    /\ operation_stack = <<>>
    /\ ~undone.valid
    /\ liquid_change_reminded
    /\ ~can_undo(Self)

\* C15: each threshold setter accepts every value in every state, also one
\* that puts the lower limit above the upper limit or above the target: the
\* field becomes the new value, the call returns the field's previous value,
\* exactly one record carrying the previous value is pushed, and the other
\* two thresholds, the ledger and the reminder flag are unchanged.
C15_SettersAcceptEveryValue ==
    [][/\ \A v \in ThresholdInputs :
             /\ set_target(Self, v).TARGET = v
             /\ set_lower_limit(Self, v).LOWER_LIMIT = v
             /\ set_upper_limit(Self, v).UPPER_LIMIT = v
       /\ last_op' = "set_target"
          => /\ result' = RetNumber(TARGET)
             /\ operation_stack' = Append(operation_stack,
                    [type |-> "set_target", previous_target |-> TARGET,
                     new_target |-> TARGET'])
             /\ UNCHANGED <<LOWER_LIMIT, UPPER_LIMIT, batches, liquid_change_reminded>>
       /\ last_op' = "set_lower_limit"
          => /\ result' = RetNumber(LOWER_LIMIT)
             /\ operation_stack' = Append(operation_stack,
                    [type |-> "set_lower_limit", previous_lower_limit |-> LOWER_LIMIT,
                     new_lower_limit |-> LOWER_LIMIT'])
             /\ UNCHANGED <<TARGET, UPPER_LIMIT, batches, liquid_change_reminded>>
       /\ last_op' = "set_upper_limit"
          => /\ result' = RetNumber(UPPER_LIMIT)
             /\ operation_stack' = Append(operation_stack,
                    [type |-> "set_upper_limit", previous_upper_limit |-> UPPER_LIMIT,
                     new_upper_limit |-> UPPER_LIMIT'])
             /\ UNCHANGED <<TARGET, LOWER_LIMIT, batches, liquid_change_reminded>>]_vars

\* the lower limit was just set above the upper limit
C15_Witness ==
    /\ last_op = "set_lower_limit"
    /\ LOWER_LIMIT > UPPER_LIMIT
    /\ Last(operation_stack).type = "set_lower_limit"
    /\ Last(operation_stack).previous_lower_limit # LOWER_LIMIT
    /\ result = RetNumber(Last(operation_stack).previous_lower_limit)

\* C16: add_batch(batch_id, value) appends exactly one contribution at the
\* tail of the ledger, leaves the earlier contributions and the three
\* thresholds unchanged, pushes exactly one add record, accepts a batch id
\* already in the ledger and any value (zero included), and returns the
\* previous total plus the value.
C16_AddBatchFrame ==
    [][/\ \A c \in Contributions :
             add_batch(Self, c.batch_id, c.value).batches = Append(batches, c)
       /\ last_op' = "add_batch"
          => /\ Len(batches') = Len(batches) + 1
             /\ Front(batches') = batches
             /\ operation_stack' = Append(operation_stack,
                    [type |-> "add_batch", batch |-> Last(batches'),
                     previous_total |-> total(Self)])
             /\ UNCHANGED <<TARGET, LOWER_LIMIT, UPPER_LIMIT>>
             /\ result' = RetNumber(total(Self) + Last(batches').value)]_vars

\* a zero contribution was just added under a batch id the ledger already holds
C16_Witness ==
    /\ last_op = "add_batch"
    /\ Len(batches) = 2
    /\ batches[1].batch_id = batches[2].batch_id
    /\ batches[1].value > 0
    /\ batches[2].value = 0
    /\ result = RetNumber(batches[1].value)

\* C17: undoing a set_target / set_lower_limit / set_upper_limit record
\* returns the threshold value in effect just before the undo: whenever such
\* a record is on top of the stack, the new value it stores is the current
\* value of its field (and that is what the undo returns).
C17_UndoSetReturnsCurrent ==
    /\ operation_stack # <<>> =>
          LET top == Last(operation_stack)
          IN /\ top.type = "set_target" =>
                   /\ top.new_target = TARGET
                   /\ undo_last_action_ret(Self) = RetNumber(TARGET)
             /\ top.type = "set_lower_limit" =>
                   /\ top.new_lower_limit = LOWER_LIMIT
                   /\ undo_last_action_ret(Self) = RetNumber(LOWER_LIMIT)
             /\ top.type = "set_upper_limit" =>
                   /\ top.new_upper_limit = UPPER_LIMIT
                   /\ undo_last_action_ret(Self) = RetNumber(UPPER_LIMIT)
    /\ (last_op = "undo_last_action" /\ undone.valid) =>
          /\ undone.op.type = "set_target" => result = RetNumber(undone.op.new_target)
          /\ undone.op.type = "set_lower_limit" => result = RetNumber(undone.op.new_lower_limit)
          /\ undone.op.type = "set_upper_limit" => result = RetNumber(undone.op.new_upper_limit)

\* a changed lower limit was undone and a changed target is on top of the stack
C17_Witness ==
    /\ last_op = "undo_last_action"
    /\ undone.valid
    /\ undone.op.type = "set_lower_limit"
    /\ result = RetNumber(undone.op.new_lower_limit)
    /\ result.val # LOWER_LIMIT
    /\ operation_stack # <<>>
    /\ Last(operation_stack).type = "set_target"
    /\ Last(operation_stack).previous_target # TARGET

\* a reset_total call that cleared a non-empty total is the last call made
JustReset == last_op = "reset_total" /\ result # RetFalse

\* C19 as stated: after reset_total (total # 0) followed immediately by
\* undo_last_action, the reminder flag has the value it had before the reset.
C19_Original ==
    [][(JustReset /\ last_op' = "undo_last_action")
       => liquid_change_reminded' = Last(shadow).liquid_change_reminded]_vars

\* C19: after reset_total (total # 0) followed immediately by
\* undo_last_action the ledger is the one before the reset and the reminder
\* flag is false, whatever it was before the reset: it has its earlier value
\* only if that value was false.
C19_UndoResetClearsFlag ==
    [][(JustReset /\ last_op' = "undo_last_action")
       => /\ batches' = Last(shadow).batches
          /\ ~liquid_change_reminded'
          /\ (liquid_change_reminded' = Last(shadow).liquid_change_reminded)
                <=> ~Last(shadow).liquid_change_reminded]_vars

\* a reset of a ledger whose notice had been issued was undone: the ledger is
\* back inside the band with the flag false
C19_Witness ==
    /\ last_op = "undo_last_action"
    /\ undone.valid
    /\ undone.op.type = "reset"
    /\ undone.seen.liquid_change_reminded
    /\ batches = undone.seen.batches
    /\ InStay
    /\ ~liquid_change_reminded

\* The last handler took total from inside or above the band to below the
\* lower limit: an undo of an addition, or a reset.
DroppedBelowLower ==
    /\ total(Self) < LOWER_LIMIT
    /\ \/ /\ last_op = "undo_process"
          /\ undone.valid
          /\ undone.op.type = "add_batch"
          /\ total(Self) + undone.op.batch.value >= LOWER_LIMIT
       \/ /\ last_op = "reset_process"
          /\ Last(shadow).total >= LOWER_LIMIT

\* C11: re-arming: when total has dropped below the lower limit through an
\* undo or a reset and the next addition, by scan or by the manual add
\* dialog, brings total back into [LOWER_LIMIT, TARGET), the reminder check
\* made after that addition returns the 'reached' notice, not 'still
\* pending' (whether or not 'reached' had been issued before the drop).
C11_RearmAfterDrop ==
    [][(/\ DroppedBelowLower
        /\ last_op' \in {"on_scan", "add_batch_dialog"}
        /\ InStay')
       => result' = Ret("Notice", "reached", 0)]_vars

\* The fields that save_data writes come back from a fresh construction.
FieldsRoundTrip(fresh) ==
    /\ fresh.batches = batches
    /\ fresh.TARGET = TARGET
    /\ fresh.LOWER_LIMIT = LOWER_LIMIT
    /\ fresh.UPPER_LIMIT = UPPER_LIMIT
    /\ fresh.input_mode = input_mode
    /\ fresh.liquid_change_reminded = liquid_change_reminded

\* C12: persistence round trip: in every engine state, save_data followed by
\* the construction of a fresh engine on the same file yields the same
\* contributions, target, lower limit, upper limit, input mode and reminder
\* flag, hence the same total and status; and saving the loaded engine again
\* reproduces the same record.
C12_RoundTrip ==
    \A mode \in {"integer", "decimal"} :
        LET saved == save_data(Self)
            fresh == construct(saved.data_file, mode)
        IN /\ FieldsRoundTrip(fresh)
           /\ total(fresh) = total(Self)
           /\ get_status(fresh) = get_status(Self)
           /\ save_data(fresh).data_file = saved.data_file

\* C13: loading a record that has no batch list yields an empty ledger and
\* total 0 whatever aggregate total the record stores, while target, lower
\* limit, upper limit, input mode and reminder flag are taken from the
\* record, with the defaults where a key is missing.
C13_LegacyRecordLoadsEmpty ==
    (/\ last_op \in {"construct", "restart"}
     /\ data_file.exists
     /\ "batches" \notin DOMAIN data_file.data)
    => LET data == data_file.data
       IN /\ batches = <<>>
          /\ total(Self) = 0
          /\ TARGET = IF "target" \in DOMAIN data
                      THEN data.target.whole * Scale + data.target.cents
                      ELSE DEFAULT_TARGET
          /\ LOWER_LIMIT = IF "lower_limit" \in DOMAIN data
                           THEN data.lower_limit.whole * Scale + data.lower_limit.cents
                           ELSE DEFAULT_LOWER_LIMIT
          /\ UPPER_LIMIT = IF "upper_limit" \in DOMAIN data
                           THEN data.upper_limit.whole * Scale + data.upper_limit.cents
                           ELSE DEFAULT_UPPER_LIMIT
          /\ input_mode = IF "input_mode" \in DOMAIN data THEN data.input_mode ELSE "integer"
          /\ liquid_change_reminded = IF "liquid_change_reminded" \in DOMAIN data
                                      THEN data.liquid_change_reminded ELSE FALSE

\* the application was started on a record with an aggregate total of 1.50, no
\* batch list and no lower limit, a target of 1.00 and the reminder flag set
C13_Witness ==
    /\ last_op = "restart"
    /\ data_file.exists
    /\ DOMAIN data_file.data = {"total", "target", "liquid_change_reminded"}
    /\ data_file.data.total = JsonNumber(150)
    /\ batches = <<>>
    /\ total(Self) = 0
    /\ TARGET = 100
    /\ LOWER_LIMIT = DEFAULT_LOWER_LIMIT
    /\ liquid_change_reminded

\* what undo_last_action does to the reminder flag: cleared by the undo of a
\* reset record, kept otherwise
FlagAfterUndo ==
    IF operation_stack # <<>> /\ Last(operation_stack).type = "reset"
    THEN FALSE ELSE liquid_change_reminded

\* add_batch and the three setters leave the reminder flag as it is
AddAndSettersKeepFlag ==
    /\ \A c \in Contributions :
          add_batch(Self, c.batch_id, c.value).liquid_change_reminded = liquid_change_reminded
    /\ \A v \in ThresholdInputs :
          /\ set_target(Self, v).liquid_change_reminded = liquid_change_reminded
          /\ set_lower_limit(Self, v).liquid_change_reminded = liquid_change_reminded
          /\ set_upper_limit(Self, v).liquid_change_reminded = liquid_change_reminded

SetterDialogs == {"set_target_dialog", "set_lower_limit_dialog", "set_upper_limit_dialog"}

\* C18 as stated: the reminder flag is changed only through the reminder
\* check and the reset: add_batch, the setters and undo_last_action, whatever
\* record it pops, leave it unchanged, and no handler of the device tab
\* writes it (the undo, setter, mode and clear-all handlers run no reminder
\* check and no reset, so they never change it).
C18_Original ==
    /\ [](/\ AddAndSettersKeepFlag
          /\ undo_last_action(Self).liquid_change_reminded = liquid_change_reminded)
    /\ [][last_op' \in SetterDialogs \cup {"undo_process", "change_input_mode",
                                           "clear_all_processes"}
          => liquid_change_reminded' = liquid_change_reminded]_vars

\* C18: add_batch, the three setters and the undo of an add or setter record
\* leave the reminder flag unchanged; besides the reminder check and
\* reset_total, the flag is written by the undo of a reset record, which
\* clears it, and directly by two handlers of the device tab:
\* clear_all_processes clears it, and set_initial_value clears it before its
\* reminder check, which sets it again iff the new total is inside the band.
C18_FlagWriters ==
    /\ [](/\ AddAndSettersKeepFlag
          /\ undo_last_action(Self).liquid_change_reminded = FlagAfterUndo)
    /\ [][/\ last_op' \in SetterDialogs \cup {"change_input_mode"}
             => liquid_change_reminded' = liquid_change_reminded
          /\ last_op' = "undo_process" => liquid_change_reminded' = FlagAfterUndo
          /\ last_op' = "clear_all_processes" => ~liquid_change_reminded'
          /\ last_op' = "set_initial_value" => liquid_change_reminded' = InStay']_vars

\* clear_all_processes cleared the flag of a ledger whose notice had been issued
C18_Witness ==
    /\ last_op = "clear_all_processes"
    /\ operation_stack # <<>>
    /\ Last(operation_stack).type = "reset"
    /\ Last(shadow).liquid_change_reminded
    /\ ~liquid_change_reminded
    /\ batches = <<>>

\* C20: status and reminder agree in every reachable state: get_status is
\* OverUpper iff total > UPPER_LIMIT, otherwise NeedsChange iff
\* LOWER_LIMIT <= total < TARGET, otherwise Normal; is_out_of_range is true
\* iff the status is not Normal; check_liquid_change_reminder returns Forced
\* exactly when the status is OverUpper and a Notice exactly when it is
\* NeedsChange.
C20_StatusAndReminderAgree ==
    /\ get_status(Self) = IF total(Self) > UPPER_LIMIT THEN "OverUpper"
                          ELSE IF LOWER_LIMIT <= total(Self) /\ total(Self) < TARGET
                               THEN "NeedsChange"
                               ELSE "Normal"
    /\ is_out_of_range(Self) = (get_status(Self) # "Normal")
    /\ (check_liquid_change_reminder_ret(Self).kind = "Forced") = (get_status(Self) = "OverUpper")
    /\ (check_liquid_change_reminder_ret(Self).kind = "Notice") = (get_status(Self) = "NeedsChange")

\* C24: undo/ledger correspondence under the single stack: in every state
\* reachable through the handlers (additions, resets, setters, undos,
\* set_initial_value, clear_all_processes, zero values included), whenever
\* the top record is an add record the ledger is non-empty and its last
\* entry is the contribution stored in the record, so the undo does not fail.
C24_UndoLedgerCorrespondence ==
    (operation_stack # <<>> /\ Last(operation_stack).type = "add_batch")
    => /\ batches # <<>>
       /\ Last(batches) = Last(operation_stack).batch
       /\ undo_last_action_ret(Self).kind # "IndexError"

\* the handlers whose completion leaves the record on disk
MutatingHandlers ==
    {"on_scan", "add_batch_dialog", "undo_process", "reset_process",
     "set_target_dialog", "set_lower_limit_dialog", "set_upper_limit_dialog",
     "set_initial_value", "clear_all_processes", "change_input_mode"}

\* C25: restart equivalence: after every completed mutating handler,
\* reminder check included, the persisted record is the engine's state in
\* memory (contributions, thresholds, input mode, reminder flag), so an
\* engine loaded at that point has the same ledger, thresholds and flag.
C25_RestartEquivalence ==
    last_op \in MutatingHandlers
    => /\ data_file = save_data(Self).data_file
       /\ FieldsRoundTrip(construct(data_file, input_mode))

\* C26: after clear_all_processes the ledger is empty, total is 0 and, for
\* an upper limit >= 0, the process is not over the upper limit:
\* over_target_upper is false, get_status is not OverUpper, the reminder
\* check does not return Forced and the next addition is not refused.
C26_ClearAllLeavesNotOver ==
    last_op = "clear_all_processes"
    => /\ batches = <<>>
       /\ total(Self) = 0
       /\ UPPER_LIMIT >= 0 =>
             /\ ~over_target_upper
             /\ get_status(Self) # "OverUpper"
             /\ check_liquid_change_reminder_ret(Self).kind # "Forced"

\* the thresholds of two engine records are the same
SameThresholds(s, t) ==
    /\ s.TARGET = t.TARGET
    /\ s.LOWER_LIMIT = t.LOWER_LIMIT
    /\ s.UPPER_LIMIT = t.UPPER_LIMIT

\* C27: set_initial_value(v) on a ledger L leaves the single contribution
\* (sample, v), so total = v, and is reversible through the stack: for L
\* non-empty the first undo leaves the ledger empty and the second restores
\* exactly L, for L empty one undo restores the empty ledger; the thresholds
\* are the same throughout.
C27_SetInitialValueReversible ==
    [][last_op' = "set_initial_value"
       => LET u1 == undo_process(Self')
              u2 == undo_process(u1)
          IN /\ Len(batches') = 1
             /\ batches'[1].batch_id = "sample"
             /\ total(Self') = batches'[1].value
             /\ SameThresholds(Self', Self)
             /\ undo_last_action_ret(Self').kind = "number"
             /\ u1.batches = <<>>
             /\ SameThresholds(u1, Self)
             /\ batches = <<>> => u1.operation_stack = operation_stack
             /\ batches # <<>> =>
                   /\ undo_last_action_ret(u1) = RetNumber(0)
                   /\ u2.batches = batches
                   /\ u2.operation_stack = operation_stack
                   /\ SameThresholds(u2, Self)]_vars

\* set_initial_value has just replaced a non-empty ledger: the stack holds
\* the reset record of that ledger under the add record of the sample
C27_Witness ==
    /\ last_op = "set_initial_value"
    /\ Len(operation_stack) = 2
    /\ operation_stack[1].type = "reset"
    /\ operation_stack[1].previous_batches # <<>>
    /\ operation_stack[2].type = "add_batch"
    /\ batches = <<operation_stack[2].batch>>
    /\ undo_process(undo_process(Self)).batches = operation_stack[1].previous_batches

\* C28: after every operation that changes the ledger (additions, undo,
\* reset, load, set_initial_value, clear_all_processes) has_decimal is true
\* iff some contribution in the ledger has a fractional value.
C28_HasDecimalExact ==
    last_op \in {"construct", "restart", "on_scan", "add_batch_dialog", "undo_process",
                 "reset_process", "set_initial_value", "clear_all_processes"}
    => has_decimal = AnyFractional(batches)

\* an engine record without its file and its undo history
Memory(s) ==
    [batches |-> s.batches, TARGET |-> s.TARGET, LOWER_LIMIT |-> s.LOWER_LIMIT,
     UPPER_LIMIT |-> s.UPPER_LIMIT, liquid_change_reminded |-> s.liquid_change_reminded]

Readable(file) == file.exists /\ "data" \in DOMAIN file

\* C22: persistence is all-or-nothing: when the process is killed during a
\* save that follows at least one successful save, the engine started next
\* has either the state of the last saved record or the new state, never a
\* corrupted record and so never the default state in their place.
C22_SaveAllOrNothing ==
    [][(last_op' = "crash_in_save" /\ Readable(data_file))
       => /\ Readable(data_file')
          /\ \E file \in {data_file, save_data(Self).data_file} :
                Memory(Self') = Memory(construct(file, "integer"))]_vars

\* C23: a load that fails leaves the default state (empty ledger, default
\* thresholds, reminder flag false); a save that fails leaves the engine
\* exactly as the mutation before it left it, undo history included, and
\* the engine goes on working.
C23_FailuresAreSwallowed ==
    /\ []((last_op \in RestartOps /\ data_file = CorruptFile)
          => /\ batches = <<>>
             /\ TARGET = DEFAULT_TARGET
             /\ LOWER_LIMIT = DEFAULT_LOWER_LIMIT
             /\ UPPER_LIMIT = DEFAULT_UPPER_LIMIT
             /\ ~liquid_change_reminded
             /\ total(Self) = 0)
    /\ [][(last_op' = "save_data" /\ result'.msg = SaveErrorMsg)
          => /\ Memory(Self') = Memory(Self)
             /\ operation_stack' = operation_stack
             /\ UNCHANGED <<over_target_upper, below_target_lower, has_decimal, input_mode>>
             /\ can_undo(Self') = can_undo(Self)]_vars

\* a save has failed and left the record cut short while the engine, started
\* once before, holds a contribution and its undo record
C23_Witness ==
    /\ last_op = "save_data"
    /\ result.msg = SaveErrorMsg
    /\ data_file = CorruptFile
    /\ restarts = 1
    /\ batches # <<>>
    /\ operation_stack # <<>>

Elements(seq) == {seq[i] : i \in 1..Len(seq)}

\* C29: log rotation loses no entry: the entries that leave the active log
\* at a rotation are exactly the entries added to the history file, so every
\* entry logged so far is in the active log or in the history file.
C29_RotationLosesNothing ==
    Len(history_logs) < HistoryLimit
    => \A n \in 1..Logged : n \in Elements(log_entries) \cup Elements(history_logs)

\* the (device id, process type) pairs that have an engine
LoadedPairs ==
    UNION {{<<d, p>> : p \in DOMAIN device_tabs[d]} : d \in DOMAIN device_tabs}

\* C21: engines of different (device id, process type) pairs are isolated:
\* two distinct pairs never map to the same persisted record, and an
\* operation on one engine changes the in-memory state of no other engine
\* and the persisted record of no other pair.
C21_EnginesIsolated ==
    [][last_op' \in {"add_process", "add_batch_dialog"}
       => /\ \A x, y \in LoadedPairs' :
                x # y => FileName(x[1], x[2]) # FileName(y[1], y[2])
          /\ \A y \in LoadedPairs :
                /\ y \in LoadedPairs'
                /\ device_tabs'[y[1]][y[2]] = device_tabs[y[1]][y[2]]
                   => FileRecord(FileName(y[1], y[2]))' = FileRecord(FileName(y[1], y[2]))]_vars

\* C30: for device ids d # e, one being the other followed by "_" and more
\* included, delete_device(d) leaves every persisted record of e as it is,
\* and when the application is started again every pair that has a record
\* is found again under the same device id and the same process type.
C30_DeleteAndRediscover ==
    [][/\ last_op' = "delete_device"
          => \A f \in DOMAIN files :
                files[f].owner[1] \in DOMAIN device_tabs'
                => f \in DOMAIN files' /\ files'[f] = files[f]
       /\ last_op' = "start_up"
          => \A f \in DOMAIN files' : files'[f].owner \in LoadedPairs']_vars

=============================================================================
